---- MODULE Spec2Model ----
(***************************************************************************)
(* Model of conversation_explorer: the JSONL transcript parser             *)
(* (TranscriptParser in parser.py) and the data model of models.py.        *)
(*                                                                         *)
(* A session file is a sequence of decoded records (what _parse_jsonl_file *)
(* yields).  The full parse (parse_transcript) and the fast scan           *)
(* (get_transcript_metadata) are two loops over the same generator; the    *)
(* model feeds every yielded record to both loop bodies, so that a state   *)
(* holds what both entry points have computed for the same file prefix.    *)
(***************************************************************************)
EXTENDS Integers, Sequences, FiniteSets, TLC

(* ---------------------------- bounds ----------------------------------- *)

\* Longest session file, in decoded records.
MaxLen == 3

\* Parseable timestamps that carry a UTC offset ("...Z") are the instants
\* 1..MaxT.
MaxT == 3

(* ------------------------- values of the data -------------------------- *)

\* record.get("timestamp") is None or empty: `if not timestamp_str`.
NoTs == 0

\* A timestamp that datetime.fromisoformat rejects (ValueError), or a
\* non-string one (AttributeError on .replace).
BadTs == -1

\* Optional[datetime] = None.
NoTime == 0

\* A parseable timestamp without offset ("2024-01-01T00:00:00"):
\* datetime.fromisoformat returns a naive datetime.
NaiveTs == MaxT + 1

\* datetime.now(): a naive datetime, later than every instant of the log.
Now == MaxT + 2

\* The datetime has a tzinfo.  Subtracting or comparing an aware and a naive
\* datetime raises TypeError.
IsAware(t) == t \in 1..MaxT

\* "type" not in line_data.
NoType == "<no type>"

\* data.get("tool_name") is None.
NoName == "<no name>"

\* Optional[str] = None (ToolCall.error, ToolCall.target).
None == "<None>"

\* MessageType and ToolStatus enum values.
USER == "user"
ASSISTANT == "assistant"
TOOL_USE == "tool_use"
TOOL_RESULT == "tool_result"
RUNNING == "running"
COMPLETED == "completed"
ERROR == "error"

ParseableTs == 1..MaxT

ToolNames == {"Read", "read_files"}

\* Shapes of record["tool_input"]:
\*   "absent"  no tool_input key (defaults to {})
\*   "path"    {"file_path": "a.py"}
\*   "str"     a JSON string "x": not a mapping
InputShapes == {"absent", "path", "str"}

\* Shapes of record["tool_output"]:
\*   "empty"     no tool_output key, or {}
\*   "err"       {"error": "boom"}
\*   "errempty"  {"error": ""}
\*   "str"       a JSON string or null: not a mapping
OutputShapes == {"empty", "err", "errempty", "str"}

\* Shapes of record["role"]: "ok" is absent or a string, "map" is a JSON
\* object, which Message.role : Optional[str] rejects.
RoleShapes == {"ok", "map"}

Rec(type, ts, name, input, is_error, output, role) ==
    [type |-> type, timestamp |-> ts, tool_name |-> name, tool_input |-> input,
     is_error |-> is_error, tool_output |-> output, role |-> role]

\* Records whose tool fields are absent.
Plain(type, ts, role) == Rec(type, ts, NoName, "absent", FALSE, "empty", role)

\* The decoded records a session file is drawn from.  Fields a record kind
\* does not read are left absent.
\* The earliest and the latest aware instant.
EndTs == {1, MaxT}

UserRecords ==
    {Plain("user", ts, "ok") : ts \in {NoTs, BadTs, NaiveTs} \cup EndTs}

UntypedRecords == {Plain(NoType, ts, "ok") : ts \in EndTs}

AssistantRecords == {Plain("system", 1, role) : role \in RoleShapes}

ToolUseRecords ==
    {Rec("tool_use", ts, n, "path", FALSE, "empty", "ok") : ts \in EndTs, n \in ToolNames}
    \cup {Rec("tool_use", 1, n, "absent", FALSE, "empty", "ok") : n \in {NoName, ""}}
    \cup {Rec("tool_use", 1, "Read", "str", FALSE, "empty", "ok"),
          Rec("tool_use", NoTs, "Read", "path", FALSE, "empty", "ok")}

ToolResultRecords ==
    {Rec("tool_result", ts, "Read", "absent", FALSE, "empty", "ok") : ts \in EndTs}
    \cup {Rec("tool_result", MaxT, n, "absent", FALSE, "empty", "ok") : n \in {"read_files", NoName}}
    \cup {Rec("tool_result", MaxT, "Read", "absent", e, o, "ok") : e \in BOOLEAN, o \in OutputShapes}

Records ==
    UserRecords \cup UntypedRecords \cup AssistantRecords
    \cup ToolUseRecords \cup ToolResultRecords

(* ------------------------------ state ---------------------------------- *)

VARIABLES
    file,        \* the decoded records yielded so far, in file order
    pc,          \* "reading" while the loops run, "truncated" once the
                 \* generator returned on an encoding error, "done" once both
                 \* calls returned, "failed" once a call raised
    line_count,  \* parse_transcript's line_count
    messages,    \* conversation.messages
    tool_calls,  \* conversation.tool_calls
    tool_map,    \* tool_map: ToolCall id -> index in tool_calls
    metadata,    \* parse_transcript's ConversationMetadata
    scan,        \* get_transcript_metadata's locals, then its result
    exists,      \* file_path.exists()
    lines,       \* the kinds of the raw lines of the file, in file order
    error,       \* the exception each entry point raised, NoError if none
    dir,         \* transcripts_dir: the session file at each path
    cache,       \* ConversationExplorer._metadata_cache
    result,      \* what the explorer's last call returned or raised
    filter_criteria,  \* the SearchFilter handed to _matches_filter
    session,     \* the session handed to _matches_filter
    verdict,     \* what _matches_filter returned or raised
    conversation_list,  \* the conversations argument of get_stats
    sample_size, \* the sample size the caller of get_stats asks for
    stats,       \* what get_stats returned or raised
    earlier,     \* the Conversations earlier parse_transcript calls returned
    extraction   \* one call of extract_target: its arguments and its result

parserVars ==
    <<file, pc, line_count, messages, tool_calls, tool_map, metadata, scan,
      exists, lines, error>>

explorerVars == <<dir, cache, result>>

filterVars == <<filter_criteria, session, verdict>>

statsVars == <<conversation_list, sample_size, stats>>

callVars == <<earlier>>

targetVars == <<extraction>>

vars == <<parserVars, explorerVars, filterVars, statsVars, callVars, targetVars>>

(* ----------------------- TranscriptParser ------------------------------ *)

\* Python truthiness of data.get("tool_name").
Truthy(name) == name # NoName /\ name # ""

\* JSON values of a tool_input: a string, a list of strings, a number.
Str(s) == [kind |-> "str", str |-> s, list |-> << >>]

List(l) == [kind |-> "list", str |-> "", list |-> l]

Num == [kind |-> "num", str |-> "", list |-> << >>]

\* A command of 60 characters.
LongCommand == "xxxxxxxxxxxxxxxxxxxxxxxxxxxxxxxxxxxxxxxxxxxxxxxxxxxxxxxxxxxx"

\* The mapping behind each shape of tool_input that is a JSON object.
InputDict(tool_input) ==
    CASE tool_input = "path" -> [file_path |-> Str("a.py")]
      [] tool_input = "emptypath" -> [file_path |-> Str("")]
      [] tool_input = "emptylist" -> [file_path |-> List(<< >>), path |-> Str("b.py")]
      [] tool_input = "files" -> [files |-> List(<<"a.py", "b.py">>)]
      [] tool_input = "emptyfirst" -> [files |-> List(<<"">>)]
      [] tool_input = "number" -> [file_path |-> Num, query |-> Num, command |-> Num]
      [] tool_input = "query" -> [query |-> Str("TODO")]
      [] tool_input = "emptypattern" -> [pattern |-> Str("")]
      [] tool_input = "command" -> [command |-> Str("ls")]
      [] tool_input = "longcommand" -> [command |-> Str(LongCommand)]
      [] tool_input = "nocommand" -> [description |-> Str("list")]

\* The loop `for field in (...)` of lines 39-45 and 48-54: the first field
\* that is a string, or a non-empty list, decides.
RECURSIVE FirstField(_, _)
FirstField(fields, d) ==
    IF fields = << >> THEN None
    ELSE IF Head(fields) \in DOMAIN d /\ d[Head(fields)].kind = "str"
         THEN d[Head(fields)].str
    ELSE IF Head(fields) \in DOMAIN d /\ d[Head(fields)].kind = "list"
            /\ d[Head(fields)].list # << >>
         THEN d[Head(fields)].list[1]
    ELSE FirstField(Tail(fields), d)

\* cmd[:50] + ("..." if len(cmd) > 50 else "")
Truncated(cmd) ==
    SubSeq(cmd, 1, IF Len(cmd) < 50 THEN Len(cmd) ELSE 50)
    \o (IF Len(cmd) > 50 THEN "..." ELSE "")

\* tool_input.get raises AttributeError on a tool_input that is a string.
Raised == "<AttributeError>"

\* extract_target(tool_name, tool_input) (lines 31-61).  On a tool_input
\* that is a JSON string, `field in tool_input` is a substring test that
\* fails for the strings of the model.
extract_target(tool_name, tool_input) ==
    IF tool_input = "absent" THEN None
    ELSE IF tool_name \in {"read_files", "edit_files", "create_file"}
    THEN IF tool_input = "str" THEN None
         ELSE FirstField(<<"file_path", "path", "files">>, InputDict(tool_input))
    ELSE IF tool_name \in {"grep", "file_glob"}
    THEN IF tool_input = "str" THEN None
         ELSE FirstField(<<"queries", "patterns", "query", "pattern">>,
                         InputDict(tool_input))
    ELSE IF tool_name = "run_shell_command"
    THEN IF tool_input = "str" THEN Raised
         ELSE LET d == InputDict(tool_input)
              IN  IF "command" \notin DOMAIN d THEN Truncated("")
                  ELSE IF d["command"].kind = "str" THEN Truncated(d["command"].str)
                  ELSE None
    ELSE None

\* The tool names and the shapes of tool_input extract_target is called on.
TargetToolNames ==
    {"Read", "read_files", "edit_files", "create_file", "grep", "file_glob",
     "run_shell_command"}

TargetInputs ==
    {"absent", "str", "path", "emptypath", "emptylist", "files", "emptyfirst",
     "number", "query", "emptypattern", "command", "longcommand", "nocommand"}

\* extract_target has not returned.
Pending == "<pending>"

\* One call of extract_target.
ExtractTarget ==
    /\ extraction.target = Pending
    /\ extraction' = [extraction EXCEPT
          !.target = extract_target(extraction.tool_name, extraction.tool_input)]
    /\ UNCHANGED <<parserVars, explorerVars, filterVars, statsVars, callVars>>

\* ToolCall(...): pydantic validates input : Optional[Dict[str, Any]].
ToolCallRaises(tool_input) == tool_input = "str"

\* Message(...): pydantic validates role : Optional[str].
MessageRaises(role) == role = "map"

\* _parse_message_line: "msg" with a Message, "none" for None, "raise" when
\* the Message constructor raises.
ParseMessageLine(line_data) ==
    LET ts == line_data.timestamp
        Msg(t) == [kind |-> "msg", type |-> t, timestamp |-> ts]
        Nothing == [kind |-> "none", type |-> NoType, timestamp |-> NoTime]
    IN  IF line_data.type = NoType THEN Nothing
        ELSE IF ts = NoTs THEN Nothing
        ELSE IF ts = BadTs THEN Nothing
        ELSE IF line_data.type = "user" THEN Msg(USER)
        ELSE IF line_data.type = "tool_use" THEN Msg(TOOL_USE)
        ELSE IF line_data.type = "tool_result" THEN Msg(TOOL_RESULT)
        ELSE IF MessageRaises(line_data.role)
             THEN [kind |-> "raise", type |-> NoType, timestamp |-> NoTime]
             ELSE Msg(ASSISTANT)

\* ToolCall(id, name, input, start_time, target): the other fields take the
\* defaults of models.py (status RUNNING, end_time None, error None).
ToolCall(tool_id, tool_name, tool_input, start_time, target) ==
    [id |-> tool_id, name |-> tool_name, input |-> tool_input, status |-> RUNNING,
     start_time |-> start_time, end_time |-> NoTime, error |-> None,
     target |-> target]

\* f"{tool_name}_{message.timestamp.isoformat()}"
ToolId(tool_name, timestamp) == <<tool_name, timestamp>>

\* Mutant: scans the list forwards (first open call of the name, FIFO).
MatchingToolFifo(calls, tool_name) ==
    LET open == {i \in 1..Len(calls) :
                    calls[i].name = tool_name /\ calls[i].end_time = NoTime}
    IN  IF open = {} THEN 0 ELSE CHOOSE i \in open : \A j \in open : i <= j

\* Mutant: forgets the name test (most recent open call of any name).
MatchingToolAnyName(calls, tool_name) ==
    LET open == {i \in 1..Len(calls) : calls[i].end_time = NoTime}
    IN  IF open = {} THEN 0 ELSE CHOOSE i \in open : \A j \in open : j <= i

\* Mutant: forgets the end_time test (most recent call of the name, open or not).
MatchingToolIgnoreEnd(calls, tool_name) ==
    LET named == {i \in 1..Len(calls) : calls[i].name = tool_name}
    IN  IF named = {} THEN 0 ELSE CHOOSE i \in named : \A j \in named : j <= i

\* The reversed(tool_calls) loop: the index of the last ToolCall of that
\* name with end_time None, 0 when there is none (matching_tool = None).
MatchingTool(calls, tool_name) ==
    LET open == {i \in 1..Len(calls) :
                    calls[i].name = tool_name /\ calls[i].end_time = NoTime}
    IN  IF open = {} THEN 0 ELSE CHOOSE i \in open : \A j \in open : j <= i

\* ToolStatus.ERROR if data.get("is_error") else ToolStatus.COMPLETED
ResultStatus(data) == IF data.is_error THEN ERROR ELSE COMPLETED

\* data.get("tool_output", {}).get("error") is truthy.
OutputErrorTruthy(tool_output) == tool_output = "err"

\* str(data.get("tool_output", {}).get("error", "Unknown error"))
ErrorMsg(tool_output) ==
    CASE tool_output = "err" -> "boom"
      [] tool_output = "errempty" -> ""
      [] OTHER -> "Unknown error"

\* Lines 240-242: the error of the matched ToolCall after the result.
\* .get on a tool_output that is no mapping raises AttributeError: the
\* assignment is not reached and the error stays as it was.
ResultError(data, old_error) ==
    IF data.tool_output = "str" THEN old_error
    ELSE IF data.is_error \/ OutputErrorTruthy(data.tool_output)
         THEN ErrorMsg(data.tool_output)
         ELSE old_error

\* Mutant: the status is assigned after the error extraction, so that a
\* tool_output that is no mapping raises before the status is set.
CloseToolCallStatusLate(tool_call, data, timestamp) ==
    IF data.tool_output = "str"
    THEN [tool_call EXCEPT !.end_time = timestamp]
    ELSE [tool_call EXCEPT !.end_time = timestamp,
                           !.status = IF data.is_error THEN ERROR ELSE COMPLETED,
                           !.error = IF data.is_error \/ data.tool_output = "err"
                                     THEN (CASE data.tool_output = "err" -> "boom"
                                             [] data.tool_output = "errempty" -> ""
                                             [] OTHER -> "Unknown error")
                                     ELSE tool_call.error]

\* Lines 234-242 on the matched ToolCall.
CloseToolCall(tool_call, data, timestamp) ==
    [tool_call EXCEPT !.end_time = timestamp,
                      !.status = ResultStatus(data),
                      !.error = ResultError(data, tool_call.error)]

\* _process_tool_calls(message, tool_map, tool_calls), message.content being
\* the record `data`: the tool_calls list and the tool_map afterwards.  An
\* exception raised inside is caught by the caller's `except Exception`,
\* which keeps what was already mutated.
ProcessToolCalls(mtype, timestamp, data, map, calls) ==
    LET tool_name == data.tool_name
        same == [tool_calls |-> calls, tool_map |-> map]
    IN  IF mtype = TOOL_USE THEN
            IF ~Truthy(tool_name) THEN same
            ELSE IF ToolCallRaises(data.tool_input) THEN same
            ELSE LET tool_id == ToolId(tool_name, timestamp)
                     target == extract_target(tool_name, data.tool_input)
                     tool_call == ToolCall(tool_id, tool_name, data.tool_input,
                                           timestamp, target)
                 IN  [tool_calls |-> Append(calls, tool_call),
                      tool_map |-> [k \in DOMAIN map \cup {tool_id} |->
                                      IF k = tool_id THEN Len(calls) + 1 ELSE map[k]]]
        ELSE IF mtype = TOOL_RESULT THEN
            IF ~Truthy(tool_name) THEN same
            ELSE LET i == MatchingTool(calls, tool_name)
                 IN  IF i = 0 THEN same
                     ELSE [tool_calls |-> [calls EXCEPT ![i] =
                                             CloseToolCall(calls[i], data, timestamp)],
                           tool_map |-> map]
        ELSE same

\* The first timestamp update of the full parse: `if line_count == 1`.
IsFirstLine(n) == n = 1

\* Mutant: the operands of the subtraction are swapped.
DurationReversed(start_time, end_time) ==
    IF end_time # NoTime /\ start_time # NoTime THEN <<start_time - end_time>> ELSE << >>

\* option values: << >> is None, <<x>> is x
Duration(start_time, end_time) ==
    IF end_time # NoTime /\ start_time # NoTime THEN <<end_time - start_time>> ELSE << >>

\* (end_time - start_time) raises TypeError: one datetime is aware, the other
\* naive (parser.py:111-114 and 276-277, outside any try).
DurationRaises(start_time, end_time) ==
    /\ end_time # NoTime
    /\ start_time # NoTime
    /\ IsAware(start_time) # IsAware(end_time)

\* No exception.
NoError == "<no error>"

\* Mutant: the existence test is dropped.
MissingFileIgnored(path_exists) == FALSE

\* `if not file_path.exists(): raise FileNotFoundError(...)`, the first
\* statement of both entry points.
MissingFileRaises(path_exists) == ~path_exists

\* Mutant: the ToolCall list outlives the call and is shared by the parses.
SharedToolCalls(calls) == calls

\* conversation.tool_calls of the Conversation parse_transcript constructs
\* (lines 69-80), whatever an earlier call left: default_factory=list.
FreshToolCalls(calls) == << >>

\* The locals of parse_transcript before its loop (lines 69-83), `calls`
\* being the ToolCall list of the call before.
ParseInit(calls) ==
    [line_count |-> 0, messages |-> << >>, tool_calls |-> FreshToolCalls(calls),
     tool_map |-> << >>,
     metadata |-> [start_time |-> Now, end_time |-> NoTime, message_count |-> 0,
                   tool_call_count |-> 0, duration_seconds |-> << >>]]

\* The body of parse_transcript's loop (lines 86-106) on the locals s.
ParseBody(s, line_data) ==
    LET message == ParseMessageLine(line_data)
        n == s.line_count + 1
    IN  IF message.kind = "msg" THEN
            LET r == ProcessToolCalls(message.type, message.timestamp, line_data,
                                      s.tool_map, s.tool_calls)
            IN  [line_count |-> n,
                 messages |-> Append(s.messages, [type |-> message.type,
                                                  timestamp |-> message.timestamp]),
                 tool_calls |-> r.tool_calls,
                 tool_map |-> r.tool_map,
                 metadata |-> [s.metadata EXCEPT
                      !.start_time = IF IsFirstLine(n) THEN message.timestamp ELSE @,
                      !.end_time = message.timestamp]]
        ELSE [s EXCEPT !.line_count = n]

\* Lines 108-114 on the locals after the loop, when the subtraction does
\* not raise.
ParseReturn(s) ==
    [s EXCEPT !.metadata = [@ EXCEPT
        !.message_count = Len(s.messages),
        !.tool_call_count = Len(s.tool_calls),
        !.duration_seconds = Duration(s.metadata.start_time, s.metadata.end_time)]]

\* One iteration of parse_transcript's loop (lines 85-106) on a yielded record.
ParseStep(line_data) ==
    LET s == ParseBody([line_count |-> line_count, messages |-> messages,
                        tool_calls |-> tool_calls, tool_map |-> tool_map,
                        metadata |-> metadata], line_data)
    IN  /\ line_count' = s.line_count
        /\ messages' = s.messages
        /\ tool_calls' = s.tool_calls
        /\ tool_map' = s.tool_map
        /\ metadata' = s.metadata

\* The timestamp of a record parses (lines 263-270 do not hit `except`).
TsParses(ts) == ts # NoTs /\ ts # BadTs

\* The locals of get_transcript_metadata before its loop (lines 254-257).
ScanInit ==
    [start_time |-> NoTime, end_time |-> NoTime, message_count |-> 0,
     tool_call_count |-> 0, duration_seconds |-> << >>]

\* The body of get_transcript_metadata's loop (lines 260-273) on the locals s.
ScanBody(s, line_data) ==
    LET ts == line_data.timestamp
    IN  [s EXCEPT
            !.message_count = @ + 1,
            !.start_time = IF TsParses(ts) /\ @ = NoTime THEN ts ELSE @,
            !.end_time = IF TsParses(ts) THEN ts ELSE @,
            !.tool_call_count = IF line_data.type = "tool_use" THEN @ + 1 ELSE @]

\* The ConversationMetadata get_transcript_metadata builds from its locals
\* (lines 275-288), when the subtraction does not raise.
ScanReturn(s) ==
    [s EXCEPT !.start_time = IF @ = NoTime THEN Now ELSE @,
              !.duration_seconds = Duration(s.start_time, s.end_time)]

\* One iteration of get_transcript_metadata's loop (lines 259-273).
ScanStep(line_data) == scan' = ScanBody(scan, line_data)

\* Both entry points on a path that does not exist.
FileNotFound ==
    /\ pc = "reading"
    /\ lines = << >>
    /\ MissingFileRaises(exists)
    /\ pc' = "failed"
    /\ error' = [parse |-> "FileNotFoundError", scan |-> "FileNotFoundError"]
    /\ UNCHANGED <<file, line_count, messages, tool_calls, tool_map, metadata,
                   scan, exists, lines>>
    /\ UNCHANGED <<explorerVars, filterVars, statsVars, callVars, targetVars>>

\* _parse_jsonl_file yields the next decoded record of the file.
ReadLine(line_data) ==
    /\ pc = "reading"
    /\ ~MissingFileRaises(exists)
    /\ Len(lines) < MaxLen
    /\ file' = Append(file, line_data)
    /\ lines' = Append(lines, "json")
    /\ ParseStep(line_data)
    /\ ScanStep(line_data)
    /\ UNCHANGED <<pc, exists, error>>
    /\ UNCHANGED <<explorerVars, filterVars, statsVars, callVars, targetVars>>

\* The raw lines _parse_jsonl_file passes over without yielding: "blank"
\* (empty after strip) and "badjson" (json.loads raises JSONDecodeError).
SkippedKinds == {"blank", "badjson"}

\* Mutant: invalid JSON ends the generator (`return` for `continue`).
OnSkippedLineStops(kind) == IF kind = "badjson" THEN "stop" ELSE "skip"

\* What the generator does with a line of a skipped kind: `continue`.
\* "skip" goes on with the next line, "stop" ends the generator.
OnSkippedLine(kind) == "skip"

\* _parse_jsonl_file reads a line it does not yield.
SkipLine(kind) ==
    /\ pc = "reading"
    /\ ~MissingFileRaises(exists)
    /\ Len(lines) < MaxLen
    /\ lines' = Append(lines, kind)
    /\ pc' = IF OnSkippedLine(kind) = "skip" THEN "reading" ELSE "truncated"
    /\ UNCHANGED <<file, line_count, messages, tool_calls, tool_map, metadata,
                   scan, exists, error>>
    /\ UNCHANGED <<explorerVars, filterVars, statsVars, callVars, targetVars>>

\* Reading the file raises UnicodeDecodeError at a line that is not UTF-8:
\* the `except UnicodeDecodeError` around the whole loop prints a warning and
\* returns, which ends the generator (parser.py:133-135).
EncodingError ==
    /\ pc = "reading"
    /\ ~MissingFileRaises(exists)
    /\ Len(lines) < MaxLen
    /\ lines' = Append(lines, "badenc")
    /\ pc' = "truncated"
    /\ UNCHANGED <<file, line_count, messages, tool_calls, tool_map, metadata,
                   scan, exists, error>>
    /\ UNCHANGED <<explorerVars, filterVars, statsVars, callVars, targetVars>>

\* A valid JSON line of the file that lies after the point where the
\* generator returned: it is never decoded.
LostLine ==
    /\ pc = "truncated"
    /\ Len(lines) < MaxLen
    /\ lines' = Append(lines, "json")
    /\ UNCHANGED <<file, pc, line_count, messages, tool_calls, tool_map,
                   metadata, scan, exists, error>>
    /\ UNCHANGED <<explorerVars, filterVars, statsVars, callVars, targetVars>>

\* End of the file: parse_transcript lines 109-116 and
\* get_transcript_metadata lines 275-288.
Finish ==
    LET parse_raises == DurationRaises(metadata.start_time, metadata.end_time)
        scan_raises == DurationRaises(scan.start_time, scan.end_time)
    IN  /\ pc \in {"reading", "truncated"}
        /\ ~MissingFileRaises(exists)
        /\ pc' = IF parse_raises \/ scan_raises THEN "failed" ELSE "done"
        /\ error' = [parse |-> IF parse_raises THEN "TypeError" ELSE NoError,
                     scan |-> IF scan_raises THEN "TypeError" ELSE NoError]
        /\ metadata' = [metadata EXCEPT
              !.message_count = Len(messages),
              !.tool_call_count = Len(tool_calls),
              !.duration_seconds =
                  IF parse_raises THEN @
                  ELSE Duration(metadata.start_time, metadata.end_time)]
        /\ scan' = IF scan_raises THEN scan ELSE ScanReturn(scan)
        /\ UNCHANGED <<file, line_count, messages, tool_calls, tool_map,
                       exists, lines>>
        /\ UNCHANGED <<explorerVars, filterVars, statsVars, callVars, targetVars>>

(* ----------------------- ConversationExplorer -------------------------- *)

\* The number of ses_*.jsonl files in transcripts_dir.
NumFiles == 2

\* The paths transcripts_dir.glob("ses_*.jsonl") yields, in the order it
\* yields them.
Paths == 1..NumFiles

\* A session file: whether it can be opened, the records its lines decode to,
\* and the query strings its text contains.
SessionFile(readable, records, text) ==
    [readable |-> readable, records |-> records, text |-> text]

EmptyFile == SessionFile(TRUE, << >>, {})

UnreadableFile == SessionFile(FALSE, << >>, {})

SessionFiles ==
    {EmptyFile, UnreadableFile,
     SessionFile(TRUE, <<Plain("user", 1, "ok")>>, {"hi"}),
     SessionFile(TRUE, <<Plain("user", NaiveTs, "ok")>>, {}),
     SessionFile(TRUE, <<Plain("user", 1, "ok"), Plain("user", MaxT, "ok")>>, {})}

\* The tool names that occur in the text of a file.
Mentions(f) ==
    {f.records[i].tool_name : i \in 1..Len(f.records)} \ {NoName}

\* get_transcript_metadata's loop over the records of a file.
RECURSIVE ScanLines(_, _)
ScanLines(s, records) ==
    IF records = << >> THEN s
    ELSE ScanLines(ScanBody(s, Head(records)), Tail(records))

\* get_transcript_metadata raises: the file cannot be opened, or the
\* subtraction of line 276 mixes a naive and an aware datetime.
ScanRaises(f) ==
    LET s == ScanLines(ScanInit, f.records)
    IN  ~f.readable \/ DurationRaises(s.start_time, s.end_time)

\* The ConversationMetadata get_transcript_metadata returns for the file f at
\* file_path.
get_transcript_metadata(file_path, f) ==
    LET m == ScanReturn(ScanLines(ScanInit, f.records))
    IN  [file_path |-> file_path, start_time |-> m.start_time,
         end_time |-> m.end_time, message_count |-> m.message_count,
         tool_call_count |-> m.tool_call_count,
         duration_seconds |-> m.duration_seconds]

\* One pass of the try block of list_conversations (lines 43-53): a cached
\* path is served from the cache, whatever the file holds now.
Cached(c, file_path) == c[file_path] # << >>

Listed(d, c, file_path) == Cached(c, file_path) \/ ~ScanRaises(d[file_path])

MetadataFor(d, c, file_path) ==
    IF Cached(c, file_path) THEN c[file_path][1]
    ELSE get_transcript_metadata(file_path, d[file_path])

\* conversations after the loop of lines 42-53, over the paths from..NumFiles.
RECURSIVE Collected(_, _, _)
Collected(d, c, from) ==
    IF from > NumFiles THEN << >>
    ELSE IF Listed(d, c, from)
         THEN <<MetadataFor(d, c, from)>> \o Collected(d, c, from + 1)
         ELSE Collected(d, c, from + 1)

\* _metadata_cache after the loop of lines 42-53.
CacheAfter(d, c) ==
    [file_path \in Paths |->
        IF Listed(d, c, file_path) THEN <<MetadataFor(d, c, file_path)>>
        ELSE << >>]

\* conversations.sort(key=start_time, reverse=True) compares a naive with an
\* aware datetime: TypeError.
SortRaises(conversations) ==
    \E i, j \in 1..Len(conversations) :
        IsAware(conversations[i].start_time) # IsAware(conversations[j].start_time)

\* list.sort with reverse=True is stable: equal keys keep their order.
RECURSIVE InsertByStart(_, _)
InsertByStart(sorted, m) ==
    IF sorted = << >> THEN <<m>>
    ELSE IF Head(sorted).start_time >= m.start_time
         THEN <<Head(sorted)>> \o InsertByStart(Tail(sorted), m)
         ELSE <<m>> \o sorted

RECURSIVE SortByStart(_)
SortByStart(conversations) ==
    IF conversations = << >> THEN << >>
    ELSE InsertByStart(SortByStart(SubSeq(conversations, 1, Len(conversations) - 1)),
                       conversations[Len(conversations)])

\* An absent Optional field of SearchFilter is << >>, a present one <<value>>;
\* an absent date is NoTime and an absent text_query is None.
EmptyFilter ==
    [start_date |-> NoTime, end_date |-> NoTime,
     min_duration |-> << >>, max_duration |-> << >>,
     min_messages |-> << >>, max_messages |-> << >>,
     text_query |-> None, tools_used |-> << >>, has_errors |-> << >>]

\* Python's truth test of an Optional number: None and 0 are both false.
NonZero(bound) == bound # << >> /\ bound[1] # 0

\* A comparison of two datetimes raises when one is naive and one aware.
CompareRaises(a, b) == IsAware(a) # IsAware(b)

\* _matches_filter (lines 211-258) on the metadata of a session and the file
\* it names: "True", "False", or "TypeError" when a date comparison raises.
\* has_errors is not read.
matches_filter(m, f, readable, text, mentions) ==
    IF f.start_date # NoTime /\ CompareRaises(m.start_time, f.start_date)
    THEN "TypeError"
    ELSE IF f.start_date # NoTime /\ m.start_time < f.start_date THEN "False"
    ELSE IF f.end_date # NoTime /\ CompareRaises(m.start_time, f.end_date)
    THEN "TypeError"
    ELSE IF f.end_date # NoTime /\ m.start_time > f.end_date THEN "False"
    ELSE IF NonZero(f.min_duration)
            /\ (m.duration_seconds = << >>
                \/ m.duration_seconds[1] < f.min_duration[1]) THEN "False"
    ELSE IF NonZero(f.max_duration)
            /\ (m.duration_seconds = << >>
                \/ m.duration_seconds[1] > f.max_duration[1]) THEN "False"
    ELSE IF NonZero(f.min_messages) /\ m.message_count < f.min_messages[1]
    THEN "False"
    ELSE IF NonZero(f.max_messages) /\ m.message_count > f.max_messages[1]
    THEN "False"
    ELSE IF f.text_query \notin {None, ""}
            /\ (~readable \/ f.text_query \notin text) THEN "False"
    ELSE IF f.tools_used # << >> /\ f.tools_used[1] # {}
            /\ (~readable \/ f.tools_used[1] \cap mentions = {}) THEN "False"
    ELSE "True"

\* What a call left in result: the call, where it raised ("" when it
\* returned), the list it returned, the directory it ran on and its filter.
Outcome(op, raised_in, conversations, d, f) ==
    [op |-> op, raised_in |-> raised_in, conversations |-> conversations,
     dir |-> d, filter_criteria |-> f]

NoCall(d) == Outcome("none", "", << >>, d, EmptyFilter)

\* list_conversations(sort_by="timestamp", reverse=True) (lines 35-68): the
\* sort of line 57 is outside the try of lines 43-53.
ListOutcome(d, c) ==
    LET conversations == Collected(d, c, 1)
    IN  IF SortRaises(conversations)
        THEN [raised_in |-> "list_conversations", conversations |-> << >>]
        ELSE [raised_in |-> "", conversations |-> SortByStart(conversations)]

ListConversations ==
    LET listed == ListOutcome(dir, cache)
    IN  /\ cache' = CacheAfter(dir, cache)
        /\ result' = Outcome("list_conversations", listed.raised_in,
                             listed.conversations, dir, EmptyFilter)
        /\ UNCHANGED <<dir, parserVars, filterVars, statsVars, callVars, targetVars>>

\* _matches_filter on a listed session and the file its file_path names now.
Verdict(m, f, d) ==
    matches_filter(m, f, d[m.file_path].readable, d[m.file_path].text,
                   Mentions(d[m.file_path]))

\* search_conversations (lines 70-79): no try around _matches_filter.
SearchConversations(f) ==
    LET listed == ListOutcome(dir, cache)
        all_conversations == listed.conversations
        raises == \E i \in 1..Len(all_conversations) :
                      Verdict(all_conversations[i], f, dir) = "TypeError"
        matched_conversations ==
            SelectSeq(all_conversations, LAMBDA m : Verdict(m, f, dir) = "True")
    IN  /\ cache' = CacheAfter(dir, cache)
        /\ result' =
              IF listed.raised_in # ""
              THEN Outcome("search_conversations", listed.raised_in, << >>, dir, f)
              ELSE IF raises
              THEN Outcome("search_conversations", "_matches_filter", << >>, dir, f)
              ELSE Outcome("search_conversations", "", matched_conversations, dir, f)
        /\ UNCHANGED <<dir, parserVars, filterVars, statsVars, callVars, targetVars>>

\* A session file is rewritten, or its permissions change, between calls.
ModifyFile(file_path, f) ==
    /\ f # dir[file_path]
    /\ dir' = [dir EXCEPT ![file_path] = f]
    /\ UNCHANGED <<cache, result, parserVars, filterVars, statsVars, callVars, targetVars>>

\* The filters the explorer is searched with: none, a start date as
\* get_recent_conversations builds it (aware), a text query.
ExplorerFilters ==
    {EmptyFilter, [EmptyFilter EXCEPT !.start_date = 1],
     [EmptyFilter EXCEPT !.text_query = "hi"]}

(* --------------------------- _matches_filter --------------------------- *)

\* The largest number of predicates present in one SearchFilter.
MaxPresent == 2

\* Session files with a tool call, closed with or without an error.
ToolFiles ==
    {SessionFile(TRUE, <<Rec("tool_use", 1, "Read", "path", FALSE, "empty", "ok"),
                         Rec("tool_result", MaxT, "Read", "absent", e, "empty", "ok")>>,
                 {}) : e \in BOOLEAN}

FilterFiles ==
    SessionFiles \cup ToolFiles
    \cup {SessionFile(TRUE, <<Plain("user", 1, "ok")>>, {}),
          SessionFile(TRUE, <<Plain("user", BadTs, "ok")>>, {})}

\* A session as search_conversations hands it to _matches_filter: the
\* metadata of a file that scanned, and the file, which may have become
\* unreadable since.
Sessions ==
    {[metadata |-> get_transcript_metadata(1, f),
      file |-> [f EXCEPT !.readable = readable]] :
        f \in {g \in FilterFiles : ~ScanRaises(g)}, readable \in BOOLEAN}

Present(f) == {k \in DOMAIN EmptyFilter : f[k] # EmptyFilter[k]}

SearchFilters ==
    {f \in [start_date : {NoTime, 1}, end_date : {NoTime, 1},
            min_duration : {<< >>, <<0>>, <<1>>},
            max_duration : {<< >>, <<0>>, <<1>>},
            min_messages : {<< >>, <<0>>, <<1>>},
            max_messages : {<< >>, <<0>>, <<1>>},
            text_query : {None, "", "hi"},
            tools_used : {<< >>, <<{"Read"}>>},
            has_errors : {<< >>, <<TRUE>>, <<FALSE>>}] :
        Cardinality(Present(f)) <= MaxPresent}

\* One call of _matches_filter(session.metadata, filter_criteria).
MatchesFilter ==
    /\ verdict = "pending"
    /\ verdict' = matches_filter(session.metadata, filter_criteria,
                                 session.file.readable, session.file.text,
                                 Mentions(session.file))
    /\ UNCHANGED <<filter_criteria, session, parserVars, explorerVars, statsVars,
                   callVars, targetVars>>

(* ------------------------------ get_stats ------------------------------ *)

\* The longest list handed to get_stats.
MaxSessions == 2

\* sample_size = min(10, len(conversations)) (line 154).
SampleLimit == 10

\* parse_transcript's loop over the records of a file.
RECURSIVE ParseLines(_, _)
ParseLines(s, records) ==
    IF records = << >> THEN s
    ELSE ParseLines(ParseBody(s, Head(records)), Tail(records))

\* parse_transcript raises: the file cannot be opened, or the subtraction of
\* line 112 mixes a naive and an aware datetime.
ParseRaises(f) ==
    LET s == ParseLines(ParseInit(<< >>), f.records)
    IN  ~f.readable \/ DurationRaises(s.metadata.start_time, s.metadata.end_time)

\* The Conversation parse_transcript returns for the file f.
parse_transcript(f) == ParseReturn(ParseLines(ParseInit(<< >>), f.records))

\* A session file the fast scan accepts and the full parse does not: its
\* first line is dropped, so the parse keeps start_time = now (naive).
ParseFailFile ==
    SessionFile(TRUE, <<Plain("user", BadTs, "ok"),
                        Rec("tool_use", 1, "Read", "path", FALSE, "empty", "ok")>>, {})

StatsFiles ==
    (SessionFiles \ {UnreadableFile}) \cup ToolFiles \cup {ParseFailFile}

\* An element of the conversations argument: a ConversationMetadata and the
\* file its file_path names.
StatsSessions ==
    {[metadata |-> get_transcript_metadata(1, f), file |-> f] : f \in StatsFiles}

\* numbers[1] + ... + numbers[n]
RECURSIVE SumTo(_, _)
SumTo(numbers, n) == IF n = 0 THEN 0 ELSE numbers[n] + SumTo(numbers, n - 1)

\* sum(numbers)
Sum(numbers) == SumTo(numbers, Len(numbers))

\* `if conv.duration_seconds` (line 133): None and 0.0 are both false.
DurationTruthy(conv) ==
    conv.metadata.duration_seconds # << >> /\ conv.metadata.duration_seconds[1] # 0

\* sum(durations) / len(durations) if durations else None, kept as the
\* pair <<sum, len>> so that no division is rounded.
Average(durations) ==
    IF durations = << >> THEN << >>
    ELSE <<Sum([i \in 1..Len(durations) |->
                   durations[i].metadata.duration_seconds[1]]),
           Len(durations)>>

\* min(start_times), max(start_times) (line 140) compare a naive with an
\* aware datetime: TypeError.
DateRangeRaises(convs) ==
    \E i, j \in 1..Len(convs) :
        CompareRaises(convs[i].metadata.start_time, convs[j].metadata.start_time)

DateRange(convs) ==
    LET start_times == {convs[i].metadata.start_time : i \in 1..Len(convs)}
    IN  <<CHOOSE t \in start_times : \A u \in start_times : t <= u,
          CHOOSE t \in start_times : \A u \in start_times : u <= t>>

\* start_time.strftime("%Y-%m-%d"): the instants of the log fall on one day,
\* now on a later one.
DateKey(t) == IF t = Now THEN "today" ELSE "2024-01-01"

ConversationsByDate(convs) ==
    [date_key \in {DateKey(convs[i].metadata.start_time) : i \in 1..Len(convs)} |->
        Cardinality({i \in 1..Len(convs) :
                        DateKey(convs[i].metadata.start_time) = date_key})]

\* The ToolCalls named tool_name among those of a Conversation.
CallsNamed(calls, tool_name) ==
    Cardinality({i \in 1..Len(calls) : calls[i].name = tool_name})

\* Lines 150-165 over the sessions of `sample`: a session whose parse raises
\* is skipped.  A name that was never counted maps to 0.
ToolUsageCounts(sample) ==
    [tool_name \in ToolNames |->
        Sum([i \in 1..Len(sample) |->
                IF ParseRaises(sample[i].file) THEN 0
                ELSE CallsNamed(parse_transcript(sample[i].file).tool_calls,
                                tool_name)])]

Min(a, b) == IF a <= b THEN a ELSE b

\* get_stats(conversations) (lines 116-176) on a caller's list.
get_stats(convs) ==
    IF convs = << >>
    THEN [raised |-> FALSE, total_conversations |-> 0, total_messages |-> 0,
          total_tool_calls |-> 0, unique_tools_used |-> {},
          average_duration |-> << >>, date_range |-> << >>,
          tool_usage_counts |-> [tool_name \in ToolNames |-> 0],
          conversations_by_date |-> << >>]
    ELSE IF DateRangeRaises(convs)
    THEN [raised |-> TRUE]
    ELSE LET counts == ToolUsageCounts(SubSeq(convs, 1, Min(SampleLimit, Len(convs))))
         IN  [raised |-> FALSE,
              total_conversations |-> Len(convs),
              total_messages |-> Sum([i \in 1..Len(convs) |->
                                       convs[i].metadata.message_count]),
              total_tool_calls |-> Sum([i \in 1..Len(convs) |->
                                         convs[i].metadata.tool_call_count]),
              unique_tools_used |-> {tool_name \in ToolNames : counts[tool_name] > 0},
              average_duration |-> Average(SelectSeq(convs, DurationTruthy)),
              date_range |-> DateRange(convs),
              tool_usage_counts |-> counts,
              conversations_by_date |-> ConversationsByDate(convs)]

\* One call of get_stats; it has no parameter for the sample size.
GetStats ==
    /\ stats = << >>
    /\ stats' = <<get_stats(conversation_list)>>
    /\ UNCHANGED <<conversation_list, sample_size, parserVars, explorerVars,
                   filterVars, callVars, targetVars>>

(* --------------------------- specifications ---------------------------- *)

ParserIdle ==
    /\ file = << >>
    /\ exists = TRUE
    /\ lines = << >>
    /\ error = [parse |-> NoError, scan |-> NoError]
    /\ pc = "reading"
    /\ line_count = 0
    /\ messages = << >>
    /\ tool_calls = << >>
    /\ tool_map = << >>
    /\ metadata = [start_time |-> Now, end_time |-> NoTime, message_count |-> 0,
                   tool_call_count |-> 0, duration_seconds |-> << >>]
    /\ scan = ScanInit
    /\ earlier = << >>

\* No ConversationExplorer has been constructed.
ExplorerIdle ==
    /\ dir = << >>
    /\ cache = << >>
    /\ result = << >>

\* No SearchFilter has been built.
FilterIdle ==
    /\ filter_criteria = << >>
    /\ session = << >>
    /\ verdict = "pending"

\* get_stats has not been called, nor extract_target on its own.
StatsIdle ==
    /\ conversation_list = << >>
    /\ sample_size = 0
    /\ stats = << >>
    /\ extraction = << >>

Init ==
    /\ file = << >>
    /\ exists \in BOOLEAN
    /\ lines = << >>
    /\ error = [parse |-> NoError, scan |-> NoError]
    /\ pc = "reading"
    /\ line_count = ParseInit(<< >>).line_count
    /\ messages = ParseInit(<< >>).messages
    /\ tool_calls = ParseInit(<< >>).tool_calls
    /\ tool_map = ParseInit(<< >>).tool_map
    /\ metadata = ParseInit(<< >>).metadata
    /\ scan = ScanInit
    /\ earlier = << >>
    /\ ExplorerIdle
    /\ FilterIdle
    /\ StatsIdle

Next ==
    \/ \E line_data \in Records : ReadLine(line_data)
    \/ Finish
    \/ FileNotFound

Spec == Init /\ [][Next]_vars

\* The worked session: user at 00:00:00Z, tool_use Read {file_path: a.py} at
\* 00:00:01Z, tool_result Read {} at 00:00:02Z, the instants 1, 2 and 3.
ExampleSession ==
    <<Plain("user", 1, "ok"),
      Rec("tool_use", 2, "Read", "path", FALSE, "empty", "ok"),
      Rec("tool_result", 3, "Read", "absent", FALSE, "empty", "ok")>>

\* Its records, and the same invocation under the tool name read_files.
ExampleRecords ==
    {ExampleSession[i] : i \in 1..3}
    \cup {Rec("tool_use", 2, "read_files", "path", FALSE, "empty", "ok")}

\* The two entry points on files made of the records of the worked session.
NextExample ==
    \/ \E line_data \in ExampleRecords : ReadLine(line_data)
    \/ Finish
    \/ FileNotFound

SpecExample == Init /\ [][NextExample]_vars

\* The caller keeps what the call returned (nothing when it raised) and
\* calls parse_transcript and get_transcript_metadata on a second file: the
\* locals of lines 69-83 and 254-257 are built anew.
NextSession ==
    /\ pc \in {"done", "failed"}
    /\ earlier = << >>
    /\ earlier' = <<IF pc = "done"
                    THEN <<[messages |-> messages, tool_calls |-> tool_calls,
                            metadata |-> metadata]>>
                    ELSE << >> >>
    /\ pc' = "reading"
    /\ exists' = TRUE
    /\ file' = << >>
    /\ lines' = << >>
    /\ error' = [parse |-> NoError, scan |-> NoError]
    /\ line_count' = ParseInit(tool_calls).line_count
    /\ messages' = ParseInit(tool_calls).messages
    /\ tool_calls' = ParseInit(tool_calls).tool_calls
    /\ tool_map' = ParseInit(tool_calls).tool_map
    /\ metadata' = ParseInit(tool_calls).metadata
    /\ scan' = ScanInit
    /\ UNCHANGED <<explorerVars, filterVars, statsVars, targetVars>>

\* The records of the two files: a message, an invocation and its result.
SessionRecords ==
    {Plain("user", 1, "ok"),
     Rec("tool_use", 1, "Read", "path", FALSE, "empty", "ok"),
     Rec("tool_result", MaxT, "Read", "absent", FALSE, "empty", "ok")}

\* Two session files parsed one after the other on the same parser.
NextSessions ==
    \/ \E line_data \in SessionRecords : ReadLine(line_data)
    \/ Finish
    \/ FileNotFound
    \/ NextSession

SpecSessions == Init /\ [][NextSessions]_vars

\* The records of the files the decoder is followed on: messages with every
\* kind of timestamp, and one tool call.
DecoderRecords ==
    UserRecords \cup UntypedRecords
    \cup {Rec("tool_use", 1, "Read", "path", FALSE, "empty", "ok"),
          Rec("tool_result", MaxT, "Read", "absent", TRUE, "err", "ok")}

\* The same two calls on a file that also holds lines the decoder does not
\* yield: blank lines, invalid JSON, invalid encoding.
NextDecoder ==
    \/ \E line_data \in DecoderRecords : ReadLine(line_data)
    \/ \E kind \in SkippedKinds : SkipLine(kind)
    \/ EncodingError
    \/ LostLine
    \/ Finish
    \/ FileNotFound

SpecDecoder == Init /\ [][NextDecoder]_vars

\* One ConversationExplorer over a directory whose files change between
\* its calls.
InitExplorer ==
    /\ ParserIdle
    /\ dir \in [Paths -> SessionFiles]
    /\ cache = [file_path \in Paths |-> << >>]
    /\ result = NoCall(dir)
    /\ FilterIdle
    /\ StatsIdle

NextExplorer ==
    \/ ListConversations
    \/ \E f \in ExplorerFilters : SearchConversations(f)
    \/ \E file_path \in Paths, f \in SessionFiles : ModifyFile(file_path, f)

SpecExplorer == InitExplorer /\ [][NextExplorer]_vars

\* _matches_filter on every session and filter of the bounded sets.
InitFilter ==
    /\ ParserIdle
    /\ ExplorerIdle
    /\ filter_criteria \in SearchFilters
    /\ session \in Sessions
    /\ verdict = "pending"
    /\ StatsIdle

NextFilter == MatchesFilter

SpecFilter == InitFilter /\ [][NextFilter]_vars

\* The lists of at most MaxSessions sessions.
SessionLists ==
    UNION {[1..n -> StatsSessions] : n \in 0..MaxSessions}

\* get_stats on every list and requested sample size of the bounded sets.
InitStats ==
    /\ ParserIdle
    /\ ExplorerIdle
    /\ FilterIdle
    /\ conversation_list \in SessionLists
    /\ sample_size \in 1..MaxSessions
    /\ stats = << >>
    /\ extraction = << >>

NextStats == GetStats

\* extract_target on every tool name and tool_input of the bounded sets.
InitTarget ==
    /\ ParserIdle
    /\ ExplorerIdle
    /\ FilterIdle
    /\ conversation_list = << >>
    /\ sample_size = 0
    /\ stats = << >>
    /\ extraction \in [tool_name : TargetToolNames, tool_input : TargetInputs,
                       target : {Pending}]

NextTarget == ExtractTarget

SpecTarget == InitTarget /\ [][NextTarget]_vars

SpecStats == InitStats /\ [][NextStats]_vars

(* ------------------------------ helpers -------------------------------- *)

TypeOK ==
    /\ pc \in {"reading", "truncated", "done", "failed"}
    /\ Len(file) <= Len(lines)
    /\ Len(lines) <= MaxLen
    /\ line_count = Len(file)
    /\ Len(messages) <= Len(file)
    /\ Len(tool_calls) <= Len(messages)

\* The record of the step, when the step is a ReadLine.
LastRead == file'[Len(file')]

\* The step yields one more record to the loops.
ReadsLine == Len(file') = Len(file) + 1

\* The record becomes a tool_result Message that names a tool.
NamedResult(rec) ==
    rec.type = "tool_result" /\ TsParses(rec.timestamp) /\ Truthy(rec.tool_name)

\* The record becomes a tool_use Message that names a tool.
NamedUse(rec) ==
    rec.type = "tool_use" /\ TsParses(rec.timestamp) /\ Truthy(rec.tool_name)

\* The ToolCalls of the list that are still open under that name.
OpenCalls(calls, tool_name) ==
    {i \in 1..Len(calls) : calls[i].name = tool_name /\ calls[i].end_time = NoTime}

MaxOf(S) == CHOOSE i \in S : \A j \in S : j <= i

(* --------------------------- C1: LIFO ---------------------------------- *)

\* C1: a tool_result naming n closes the most recently inserted ToolCall of
\* name n whose end_time is absent, and changes no other ToolCall; after
\* tool_use(n)@t1, tool_use(n)@t2, tool_result(n)@t3 the second call has
\* end_time t3 and the first is still running.
C1_LifoCorrelation ==
    [][ReadsLine =>
        /\ (NamedResult(LastRead) /\ OpenCalls(tool_calls, LastRead.tool_name) # {}) =>
              LET m == MaxOf(OpenCalls(tool_calls, LastRead.tool_name))
              IN  /\ Len(tool_calls') = Len(tool_calls)
                  /\ tool_calls'[m].end_time = LastRead.timestamp
                  /\ \A j \in 1..Len(tool_calls) :
                        j # m => tool_calls'[j] = tool_calls[j]
        /\ (/\ Len(file') = 3
            /\ NamedUse(file'[1]) /\ NamedUse(file'[2]) /\ NamedResult(file'[3])
            /\ file'[1].tool_name = file'[3].tool_name
            /\ file'[2].tool_name = file'[3].tool_name
            /\ Len(tool_calls') = 2) =>
              /\ tool_calls'[2].start_time = file'[2].timestamp
              /\ tool_calls'[2].end_time = file'[3].timestamp
              /\ tool_calls'[1].start_time = file'[1].timestamp
              /\ tool_calls'[1].end_time = NoTime
              /\ tool_calls'[1].status = RUNNING
    ]_vars

\* Two calls of one name opened at different instants, then one result: the
\* later call is closed, the earlier one is open.
C1_Witness ==
    /\ Len(file) = 3
    /\ NamedUse(file[1]) /\ NamedUse(file[2]) /\ NamedResult(file[3])
    /\ file[1].tool_name = file[3].tool_name
    /\ file[2].tool_name = file[3].tool_name
    /\ file[1].timestamp < file[2].timestamp
    /\ Len(tool_calls) = 2
    /\ tool_calls[2].end_time = file[3].timestamp
    /\ tool_calls[1].end_time = NoTime

(* ------------------------ C2: cardinality ------------------------------ *)

\* The tool_use Messages of the file that name a tool, in file order.
NamedUses(f) == SelectSeq(f, NamedUse)

\* C2: after a full parse the ToolCall list has exactly one ToolCall per
\* tool_use Message that has a tool_name, in file order.
C2_Cardinality ==
    pc = "done" =>
        /\ Len(tool_calls) = Len(NamedUses(file))
        /\ \A i \in 1..Len(tool_calls) :
              /\ tool_calls[i].name = NamedUses(file)[i].tool_name
              /\ tool_calls[i].start_time = NamedUses(file)[i].timestamp

(* --------------------- C3: orphaned tool_result ------------------------ *)

\* C3: a tool_result that matches no open ToolCall of its name creates no
\* ToolCall and leaves every ToolCall as it was; a session of tool_result
\* records only ends with no ToolCall.
C3_OrphanDropped ==
    [][ReadsLine =>
        /\ (/\ LastRead.type = "tool_result"
            /\ OpenCalls(tool_calls, LastRead.tool_name) = {}) =>
              tool_calls' = tool_calls
        /\ (\A i \in 1..Len(file') : file'[i].type = "tool_result") =>
              tool_calls' = << >>
    ]_vars

\* A named tool_result arrives while a call of another name is open and no
\* call of its own name is: the open call is still running.
C3_Witness ==
    /\ Len(file) = 2
    /\ NamedUse(file[1]) /\ NamedResult(file[2])
    /\ file[1].tool_name # file[2].tool_name
    /\ Len(tool_calls) = 1
    /\ tool_calls[1].end_time = NoTime

(* ------------------- C4: one status transition ------------------------- *)

\* C4: a ToolCall is created running; its status only moves from running to
\* completed or error; a terminal ToolCall is never changed again.
C4_SingleTransition ==
    [][/\ Len(tool_calls') >= Len(tool_calls)
       /\ \A i \in 1..Len(tool_calls') :
             IF i > Len(tool_calls)
             THEN tool_calls'[i].status = RUNNING
             ELSE /\ tool_calls[i].status # RUNNING =>
                        /\ tool_calls'[i].status = tool_calls[i].status
                        /\ tool_calls'[i].end_time = tool_calls[i].end_time
                        /\ tool_calls'[i].error = tool_calls[i].error
                  /\ tool_calls'[i].status # tool_calls[i].status =>
                        /\ tool_calls[i].status = RUNNING
                        /\ tool_calls'[i].status \in {COMPLETED, ERROR}
    ]_vars

\* A call was closed by a first result, and a second result of the same name
\* with another timestamp came after it.
C4_Witness ==
    /\ Len(file) = 3
    /\ NamedUse(file[1]) /\ NamedResult(file[2]) /\ NamedResult(file[3])
    /\ file[1].tool_name = file[2].tool_name
    /\ file[1].tool_name = file[3].tool_name
    /\ file[2].timestamp # file[3].timestamp
    /\ Len(tool_calls) = 1
    /\ tool_calls[1].status # RUNNING
    /\ tool_calls[1].end_time = file[2].timestamp

(* ------------------- C5: end_time >= start_time ------------------------ *)

\* C5: in the returned Conversation every ToolCall with an end_time has
\* end_time >= start_time.
C5_EndNotBeforeStart ==
    pc = "done" =>
        \A i \in 1..Len(tool_calls) :
            tool_calls[i].end_time # NoTime =>
                tool_calls[i].end_time >= tool_calls[i].start_time

(* ------------------ C6: running iff no end_time ------------------------ *)

\* C6: in every state of the parse and in the returned Conversation, a
\* ToolCall is running exactly when its end_time is absent.
C6_RunningIffOpen ==
    \A i \in 1..Len(tool_calls) :
        (tool_calls[i].status = RUNNING) <=> (tool_calls[i].end_time = NoTime)

\* A result whose tool_output is no mapping (the handler raises after the
\* status was set) closed a call while another call is still running.
C6_Witness ==
    /\ Len(file) = 3
    /\ file[3].tool_output = "str"
    /\ Len(tool_calls) = 2
    /\ tool_calls[1].status = RUNNING
    /\ tool_calls[2].status # RUNNING
    /\ tool_calls[2].end_time = file[3].timestamp

(* ------------------- C7: status of a matched result -------------------- *)

\* The result carries an error payload: tool_output.error is set.
HasErrorPayload(rec) == rec.tool_output = "err"

\* C7: a matched ToolCall becomes error when the result has is_error or an
\* error payload, and completed otherwise.
C7_StatusOnMatch ==
    [][(/\ ReadsLine
        /\ NamedResult(LastRead)
        /\ OpenCalls(tool_calls, LastRead.tool_name) # {}) =>
          LET m == MaxOf(OpenCalls(tool_calls, LastRead.tool_name))
          IN  tool_calls'[m].status =
                 IF LastRead.is_error \/ HasErrorPayload(LastRead)
                 THEN ERROR ELSE COMPLETED
    ]_vars

(* ------------------- C8: error string on is_error ---------------------- *)

\* C8: a ToolCall closed by a result with is_error true has status error and
\* a non-empty error string, whatever the shape of tool_output.
C8_ErrorStringOnIsError ==
    [][(/\ ReadsLine
        /\ NamedResult(LastRead)
        /\ LastRead.is_error
        /\ OpenCalls(tool_calls, LastRead.tool_name) # {}) =>
          LET m == MaxOf(OpenCalls(tool_calls, LastRead.tool_name))
          IN  /\ tool_calls'[m].status = ERROR
              /\ tool_calls'[m].error # None
              /\ tool_calls'[m].error # ""
    ]_vars

(* ---------------- C9, C10: fast scan against full parse ---------------- *)

\* Every record of the file has a type and a parseable timestamp.
WellFormed(f) ==
    \A i \in 1..Len(f) : f[i].type # NoType /\ TsParses(f[i].timestamp)

\* C9: for a well-formed session the fast scan's message_count is the number
\* of Messages of the full parse.
C9_CountEqualWellFormed ==
    (pc = "done" /\ WellFormed(file)) => scan.message_count = Len(messages)

\* C10: for any file both entry points return the same message_count,
\* start_time and end_time.
C10_EntryPointsAgree ==
    pc = "done" =>
        /\ scan.message_count = metadata.message_count
        /\ scan.start_time = metadata.start_time
        /\ scan.end_time = metadata.end_time

(* ------------------ C11: start_time and end_time ----------------------- *)

\* C11: in the metadata parse_transcript returns, start_time is the timestamp
\* of the first accepted Message and end_time that of the last one, whenever
\* there is an accepted Message.
C11_StartEndOfMessages ==
    (pc = "done" /\ Len(messages) > 0) =>
        /\ metadata.start_time = messages[1].timestamp
        /\ metadata.end_time = messages[Len(messages)].timestamp

(* -------------------- C12: bad lines never fail ------------------------ *)

\* The record is dropped for lack of a type or of a parseable timestamp.
LacksTypeOrTimestamp(rec) == rec.type = NoType \/ ~TsParses(rec.timestamp)

\* Every record of the file is either dropped for lack of type or timestamp
\* or classified without an exception, and the parseable timestamps of the
\* file are all aware or all naive: nothing but the dropped lines is unusual.
OnlySkippableFaults(f) ==
    /\ \A i \in 1..Len(f) :
          LacksTypeOrTimestamp(f[i]) \/ ParseMessageLine(f[i]).kind = "msg"
    /\ \A i, j \in 1..Len(f) :
          (TsParses(f[i].timestamp) /\ TsParses(f[j].timestamp)) =>
              IsAware(f[i].timestamp) = IsAware(f[j].timestamp)

\* C12: on a readable file whose only faults are lines that are not valid
\* JSON or lack type or timestamp, both entry points return a result.
C12_BadLinesNeverFail ==
    (exists /\ pc \in {"done", "failed"} /\ OnlySkippableFaults(file)) =>
        /\ pc = "done"
        /\ error.parse = NoError
        /\ error.scan = NoError

(* ------------------- C13: invalid JSON lines --------------------------- *)

\* The number of valid JSON lines among the raw lines.
JsonCount(ls) == Cardinality({i \in 1..Len(ls) : ls[i] = "json"})

\* The step reads one more raw line, of that kind.
ReadsRaw(kind) == Len(lines') = Len(lines) + 1 /\ lines'[Len(lines')] = kind

\* C13: a line of invalid JSON changes nothing of the parse (the generator
\* goes on, the parse state is as if the line were not there), so that every
\* valid line is delivered whatever invalid lines lie between; one invalid
\* line between two valid user lines gives exactly 2 Messages.
C13_InvalidJsonInvisible ==
    [][/\ ReadsRaw("badjson") =>
            /\ pc' = pc
            /\ UNCHANGED <<file, line_count, messages, tool_calls, tool_map,
                           metadata, scan, error>>
       /\ (\A i \in 1..Len(lines') : lines'[i] # "badenc") =>
            Len(file') = JsonCount(lines')
       /\ (/\ lines' = <<"json", "badjson", "json">>
           /\ \A i \in 1..2 : file'[i].type = "user" /\ TsParses(file'[i].timestamp)) =>
            /\ Len(messages') = 2
            /\ messages'[1].timestamp = file'[1].timestamp
            /\ messages'[2].timestamp = file'[2].timestamp
    ]_vars

\* Two valid user lines around a line of invalid JSON, and two Messages.
C13_Witness ==
    /\ lines = <<"json", "badjson", "json">>
    /\ \A i \in 1..2 : file[i].type = "user" /\ TsParses(file[i].timestamp)
    /\ Len(messages) = 2

(* ------------------- C14: invalid encoding ----------------------------- *)

\* C14: decoder failures are local also for invalid encoding: every valid
\* line of the file, before or after a line that is not UTF-8, is decoded
\* and delivered.
C14_EncodingErrorLocal == Len(file) = JsonCount(lines)

(* ---------------------- C20: missing file ------------------------------ *)

\* C20: for a path that does not exist both entry points raise
\* FileNotFoundError before anything is read, and never return a result.
C20_MissingFile ==
    ~exists =>
        /\ pc \in {"reading", "failed"}
        /\ file = << >> /\ lines = << >> /\ line_count = 0
        /\ messages = << >> /\ tool_calls = << >>
        /\ scan.message_count = 0
        /\ pc = "failed" =>
              /\ error.parse = "FileNotFoundError"
              /\ error.scan = "FileNotFoundError"

\* The calls on a missing path have raised.
C20_Witness ==
    /\ ~exists
    /\ pc = "failed"
    /\ error.parse = "FileNotFoundError"
    /\ error.scan = "FileNotFoundError"

(* ------------------- claims on ConversationExplorer -------------------- *)

\* The paths of the sessions a call returned.
ReturnedPaths == {result.conversations[i].file_path : i \in 1..Len(result.conversations)}

\* C15: metadata cache coherence.  Whatever list_conversations calls and file
\* changes came before, every metadata a list_conversations call returns
\* equals a fresh fast scan of what the file held when the call was made.
C15_CacheCoherent ==
    (result.op = "list_conversations" /\ result.raised_in = "") =>
        \A i \in 1..Len(result.conversations) :
            LET m == result.conversations[i]
            IN  /\ ~ScanRaises(result.dir[m.file_path])
                /\ m = get_transcript_metadata(m.file_path, result.dir[m.file_path])

\* C18: in search_conversations no evaluation failure of a present predicate
\* aborts the pass, and a session whose file cannot be read for the text
\* scan is not among the matches.
C18_UnevaluableIsNonMatching ==
    result.op = "search_conversations" =>
        /\ result.raised_in # "_matches_filter"
        /\ result.filter_criteria.text_query \notin {None, ""} =>
              \A file_path \in ReturnedPaths : result.dir[file_path].readable

\* C19: a multi-session pass never stops at a failure: list_conversations
\* returns, every session whose scan succeeds is in its result and every
\* session whose scan fails is left out, and no search_conversations call
\* is aborted by its listing.
C19_PassNeverAborts ==
    /\ result.raised_in # "list_conversations"
    /\ result.op = "list_conversations" =>
          \A file_path \in Paths :
              file_path \in ReturnedPaths <=> ~ScanRaises(result.dir[file_path])

(* ---------------------- claims on _matches_filter ---------------------- *)

\* The session has a ToolCall with status error: a tool_result that closes
\* an earlier tool_use of its name with is_error set.
HasErrorCall(records) ==
    \E i, j \in 1..Len(records) :
        /\ i < j
        /\ records[i].type = "tool_use"
        /\ records[j].type = "tool_result"
        /\ records[j].tool_name = records[i].tool_name
        /\ ResultStatus(records[j]) = ERROR

\* The session s satisfies every predicate present in the filter f.
Satisfies(s, f) ==
    LET m == s.metadata
    IN  /\ f.start_date # NoTime =>
              (~CompareRaises(m.start_time, f.start_date) /\ m.start_time >= f.start_date)
        /\ f.end_date # NoTime =>
              (~CompareRaises(m.start_time, f.end_date) /\ m.start_time <= f.end_date)
        /\ f.min_duration # << >> =>
              (m.duration_seconds # << >> /\ m.duration_seconds[1] >= f.min_duration[1])
        /\ f.max_duration # << >> =>
              (m.duration_seconds # << >> /\ m.duration_seconds[1] <= f.max_duration[1])
        /\ f.min_messages # << >> => m.message_count >= f.min_messages[1]
        /\ f.max_messages # << >> => m.message_count <= f.max_messages[1]
        /\ f.text_query \notin {None, ""} =>
              (s.file.readable /\ f.text_query \in s.file.text)
        /\ f.tools_used # << >> =>
              (s.file.readable /\ f.tools_used[1] \cap Mentions(s.file) # {})
        /\ f.has_errors # << >> => HasErrorCall(s.file.records) = f.has_errors[1]

\* C16: filter AND semantics.  _matches_filter returns True exactly for the
\* sessions that satisfy every predicate present in the filter; the empty
\* filter matches every session.
C16_MatchIffAllPresent ==
    verdict # "pending" =>
        /\ (verdict = "True") <=> Satisfies(session, filter_criteria)
        /\ filter_criteria = EmptyFilter => verdict = "True"

\* C17: when has_errors is set, a session matches only if its error
\* presence equals the requested value.
C17_HasErrorsApplied ==
    (verdict = "True" /\ filter_criteria.has_errors # << >>) =>
        HasErrorCall(session.file.records) = filter_criteria.has_errors[1]

(* ---------------------- claims on the worked session ------------------- *)

\* C21: for the session user, tool_use Read {file_path: a.py}, tool_result
\* Read {} at one-second steps, parse_transcript returns 3 Messages and one
\* ToolCall, completed, with target "a.py" and a duration of 1 second, and
\* metadata duration_seconds = 2.
C21_WorkedSession ==
    (pc = "done" /\ file = ExampleSession) =>
        /\ Len(messages) = 3
        /\ Len(tool_calls) = 1
        /\ tool_calls[1].status = COMPLETED
        /\ tool_calls[1].target = "a.py"
        /\ tool_calls[1].end_time - tool_calls[1].start_time = 1
        /\ metadata.duration_seconds = <<2>>

(* ------------------------- claims on durations ------------------------- *)

\* Some record of the file has a timestamp the fast scan accepts.
ScanAccepted == \E i \in 1..Len(file) : TsParses(file[i].timestamp)

\* C22: in the metadata either entry point returns, duration_seconds is
\* exactly end_time - start_time of that metadata when end_time is present,
\* and absent when no message timestamp was accepted.
C22_DurationExact ==
    pc = "done" =>
        /\ metadata.end_time # NoTime =>
              metadata.duration_seconds = <<metadata.end_time - metadata.start_time>>
        /\ scan.end_time # NoTime =>
              scan.duration_seconds = <<scan.end_time - scan.start_time>>
        /\ messages = << >> => metadata.duration_seconds = << >>
        /\ ~ScanAccepted => scan.duration_seconds = << >>

\* Both entry points returned a metadata that spans the whole log.
C22_Witness ==
    /\ pc = "done"
    /\ metadata.start_time = 1
    /\ metadata.end_time = MaxT
    /\ metadata.duration_seconds = <<MaxT - 1>>
    /\ scan.duration_seconds = <<MaxT - 1>>

(* ----------------------- claims on classification ---------------------- *)

\* The Message kind the classification assigns to a declared type.
KindOf(type) ==
    CASE type = "user" -> USER
      [] type = "tool_use" -> TOOL_USE
      [] type = "tool_result" -> TOOL_RESULT
      [] OTHER -> ASSISTANT

\* C23: classification is total and closed.  A record with a type and a
\* parseable timestamp yields exactly one Message, of the kind of its type;
\* a record lacking either yields none.
C23_ClassificationTotal ==
    [][ReadsLine =>
          IF LacksTypeOrTimestamp(LastRead)
          THEN messages' = messages
          ELSE messages' = Append(messages, [type |-> KindOf(LastRead.type),
                                             timestamp |-> LastRead.timestamp])
    ]_vars

(* -------------------------- claims on get_stats ------------------------ *)

\* The sessions whose duration is known.
DurationKnown(conv) == conv.metadata.duration_seconds # << >>

\* Two means, each a pair <<sum, count>> or absent, are the same number.
SameMean(a, b) ==
    IF a = << >> \/ b = << >> THEN a = b
    ELSE a[1] * b[2] = b[1] * a[2]

\* C24: average_duration is the mean of duration_seconds over exactly the
\* sessions whose duration is known, a duration of 0 seconds included.
C24_AverageOverKnown ==
    (stats # << >> /\ ~stats[1].raised) =>
        SameMean(stats[1].average_duration,
                 Average(SelectSeq(conversation_list, DurationKnown)))

\* C25: tool_usage_counts and unique_tools_used come from a full parse of
\* exactly the first N sessions of the caller's list, N being the sample
\* size the caller supplies.
C25_SampleIsFirstN ==
    (stats # << >> /\ ~stats[1].raised /\ sample_size <= Len(conversation_list)) =>
        LET counts == ToolUsageCounts(SubSeq(conversation_list, 1, sample_size))
        IN  /\ stats[1].tool_usage_counts = counts
            /\ stats[1].unique_tools_used =
                  {tool_name \in ToolNames : counts[tool_name] > 0}

(* ---------------------- claims on session independence ----------------- *)

\* The locals of a parse of the records read so far, alone.
Alone == ParseLines(ParseInit(<< >>), file)

\* C26: sessions are independent.  What parse_transcript builds for the
\* second file is what it builds for that file alone, whatever file was
\* parsed before it; no ToolCall of the first session is in its list.
C26_SessionsIndependent ==
    earlier # << >> =>
        /\ messages = Alone.messages
        /\ tool_calls = Alone.tool_calls
        /\ tool_map = Alone.tool_map
        /\ pc = "done" => metadata = ParseReturn(Alone).metadata

\* The first session left a Read call open and the second, parsed to its
\* end, holds a tool_result Read: that result closed nothing.
C26_Witness ==
    /\ earlier # << >>
    /\ earlier[1] # << >>
    /\ \E i \in 1..Len(earlier[1][1].tool_calls) :
          /\ earlier[1][1].tool_calls[i].name = "Read"
          /\ earlier[1][1].tool_calls[i].status = RUNNING
    /\ pc = "done"
    /\ file = <<Rec("tool_result", MaxT, "Read", "absent", FALSE, "empty", "ok")>>
    /\ tool_calls = << >>

(* ------------------------- claims on zero bounds ----------------------- *)

\* C27: a present bound of 0 is applied like any other: with max_messages = 0
\* a session matches only if its message_count is 0, and with
\* max_duration = 0 only if its duration is known and equal to 0.
C27_ZeroBoundApplied ==
    verdict = "True" =>
        /\ filter_criteria.max_messages = <<0>> =>
              session.metadata.message_count = 0
        /\ filter_criteria.max_duration = <<0>> =>
              session.metadata.duration_seconds = <<0>>

(* ------------------------ claims on extract_target --------------------- *)

\* C28: the target is absent or a non-empty string: extract_target never
\* returns the empty string, whatever the tool name and the tool_input.
C28_TargetNeverEmpty == extraction # << >> => extraction.target # ""

(* ---------------------- claims on the two counts ----------------------- *)

\* Every tool_use record of the file has a parseable timestamp and a
\* non-empty tool_name.
ToolUsesWellFormed ==
    \A i \in 1..Len(file) :
        file[i].type = "tool_use" =>
            TsParses(file[i].timestamp) /\ Truthy(file[i].tool_name)

\* C29: for the same file, tool_call_count of the fast scan is never smaller
\* than the number of ToolCalls of the full parse, and the two are equal
\* when every tool_use record has a parseable timestamp and a non-empty
\* tool_name.
C29_ScanCountsToolCalls ==
    pc = "done" =>
        /\ scan.tool_call_count >= Len(tool_calls)
        /\ ToolUsesWellFormed => scan.tool_call_count = Len(tool_calls)

\* The first half of C29 alone.
C29_ScanNotSmaller == pc = "done" => scan.tool_call_count >= Len(tool_calls)

(* ------------------------- claims on the ids --------------------------- *)

\* C30: within one Conversation the synthesized ToolCall ids are pairwise
\* distinct, for every sequence of tool_use records.
C30_IdsDistinct ==
    \A i, j \in 1..Len(tool_calls) :
        i # j => tool_calls[i].id # tool_calls[j].id

====
